---- MODULE Spec2Model ----
(***************************************************************************)
(* Model of mesh_graphormer/utils/comm.py: the helpers get_world_size,     *)
(* get_rank, is_main_process, synchronize, gather_on_master and            *)
(* reduce_dict, run by the processes of one torch.distributed group.       *)
(*                                                                         *)
(* A process is at one place of one call at a time (pc).  A call blocks    *)
(* inside a collective (all_gather, gather, reduce, barrier) until every   *)
(* rank of the group is inside the same collective; the collective then    *)
(* completes for all ranks in one step.  An exception that leaves a call   *)
(* is not caught by anything in comm.py: the process stops (pc "raised").  *)
(*                                                                         *)
(* calls, rets and events are the record of what each process was given,   *)
(* what it got back and which library operations it issued, call by call.  *)
(***************************************************************************)
EXTENDS Integers, Sequences, FiniteSets, TLC

\* ---------------------------------------------------------------- bounds
MaxWorld == 3      \* largest group size explored
MaxByte == 3       \* bytes are 0..MaxByte
MaxLen == 1        \* longest payload (number of items)
MaxKey == 2        \* mapping keys are 1..MaxKey
MaxVal == 2        \* mapping values are 1..MaxVal
MaxCalls == 2      \* calls a process makes in the multi-call specification

VARIABLES
    initialized,   \* dist.is_available() and dist.is_initialized()
    world,         \* dist.get_world_size(): the number of processes
    pc,            \* pc[r]: where process r is
    tensor,        \* gather_on_master: the local byte tensor
    size_list,     \* gather_on_master: the sizes all_gather delivered
    tensor_list,   \* gather_on_master: the receive buffers (rank 0)
    input_dict,    \* reduce_dict: the caller's mapping object
    names,         \* reduce_dict: the sorted keys
    values,        \* reduce_dict: the stacked values
    calls,         \* calls[r]: the inputs of r's calls, oldest first
    rets,          \* rets[r]: the outcomes of r's finished calls
    events         \* events[r][k]: library operations issued in call k

vars == <<initialized, world, pc, tensor, size_list, tensor_list, input_dict,
          names, values, calls, rets, events>>

Procs == 0 .. (world - 1)

\* ---------------------------------------------------------- bookkeeping
Ev(op, arg) == [op |-> op, arg |-> arg]

\* Process r begins a call: its input is recorded, its event list is empty.
Begin(r, inp) ==
    /\ calls' = [calls EXCEPT ![r] = Append(@, inp)]
    /\ events' = [events EXCEPT ![r] = Append(@, <<>>)]

\* Process r issues library operations inside its current call.
Issue(r, evs) == events' = [events EXCEPT ![r][Len(events[r])] = @ \o evs]

BeginIssue(r, inp, evs) ==
    /\ calls' = [calls EXCEPT ![r] = Append(@, inp)]
    /\ events' = [events EXCEPT ![r] = Append(@, evs)]

Return(r, out) == rets' = [rets EXCEPT ![r] = Append(@, out)]

Raise == [kind |-> "error", val |-> <<>>]
RetNone == [kind |-> "None", val |-> <<>>]
RetList(l) == [kind |-> "list", val |-> l]
RetDict(d) == [kind |-> "dict", val |-> d]

Idle(r) == pc[r] = "idle"

\* ------------------------------------------------------------ the helpers
\* A variant of get_world_size that answers 0 when no group is active.
get_world_size_zero == IF ~initialized THEN 0 ELSE world

\* A variant of get_world_size with the test of is_initialized inverted.
get_world_size_inverted == IF initialized THEN 1 ELSE world

get_world_size == IF ~initialized THEN 1 ELSE world

\* A variant of get_rank that answers 0 on every process.
get_rank_zero(r) == 0

get_rank(r) == IF ~initialized THEN 0 ELSE r

\* A variant of is_main_process that takes rank 1 for the main process.
is_main_process_rank1(r) == get_rank(r) = 1

is_main_process(r) == get_rank(r) = 0

\* ------------------------------------------------------- pickle and bytes
Byte == 0 .. MaxByte

\* Opcodes of the byte stream: STOP ends a pickle, BININT1 is followed by a
\* one-byte argument, GLOBAL names an object the loading side has to resolve.
\* Every other byte is no opcode.
STOP == MaxByte
BININT1 == MaxByte - 1
GLOBAL == MaxByte - 2

\* Payload items: a byte-sized integer, Lambda (an object pickle.dumps
\* refuses), Foreign (an object pickle.dumps writes as a GLOBAL reference
\* that pickle.loads cannot resolve on the receiving process).
Lambda == 0 - 1
Foreign == 0 - 2
Items == Byte \cup {Lambda, Foreign}

SeqsUpTo(S, n) == UNION {[1 .. m -> S] : m \in 0 .. n}

Payloads == SeqsUpTo(Items, MaxLen)

\* A variant of Picklable under which pickle.dumps refuses nothing.
Picklable_any(data) == TRUE

Picklable(data) == \A i \in 1 .. Len(data) : data[i] # Lambda

RECURSIVE dumpsItems(_)
dumpsItems(data) ==
    IF data = <<>> THEN <<>>
    ELSE (IF Head(data) = Foreign THEN <<GLOBAL>> ELSE <<BININT1, Head(data)>>)
         \o dumpsItems(Tail(data))

\* pickle.dumps(data), for a picklable data
dumps(data) == dumpsItems(data) \o <<STOP>>

\* pickle.loads(buffer): executes opcodes from the first byte up to the first
\* STOP opcode and ignores whatever follows it.  ok = FALSE is an exception.
RECURSIVE loadsFrom(_, _, _)
loadsFrom(buffer, i, acc) ==
    IF i > Len(buffer) THEN [ok |-> FALSE, val |-> <<>>]
    ELSE IF buffer[i] = STOP THEN [ok |-> TRUE, val |-> acc]
    ELSE IF buffer[i] = BININT1 /\ i + 1 <= Len(buffer)
         THEN loadsFrom(buffer, i + 2, Append(acc, buffer[i + 1]))
    ELSE [ok |-> FALSE, val |-> <<>>]

loads(buffer) == loadsFrom(buffer, 1, <<>>)

RECURSIVE SeqMax(_)
SeqMax(s) ==
    IF Len(s) = 1 THEN s[1]
    ELSE IF Head(s) >= SeqMax(Tail(s)) THEN Head(s) ELSE SeqMax(Tail(s))

\* ------------------------------------------------------ gather_on_master
GatherInput(data) == [op |-> "gather", data |-> data, average |-> FALSE]

\* Lines 57-72: up to the point where the process waits inside all_gather.
GatherCall(r, data) ==
    /\ Idle(r)
    /\ IF get_world_size = 1
       THEN /\ Begin(r, GatherInput(data))
            /\ Return(r, RetList(<<data>>))
            /\ UNCHANGED <<pc, tensor>>
       ELSE IF ~Picklable(data)
       THEN /\ BeginIssue(r, GatherInput(data), <<Ev("dumps", <<>>)>>)
            /\ Return(r, Raise)
            /\ pc' = [pc EXCEPT ![r] = "raised"]
            /\ UNCHANGED tensor
       ELSE /\ BeginIssue(r, GatherInput(data),
                          <<Ev("dumps", <<>>), Ev("all_gather", <<Len(dumps(data))>>)>>)
            /\ tensor' = [tensor EXCEPT ![r] = dumps(data)]
            /\ pc' = [pc EXCEPT ![r] = "all_gather"]
            /\ UNCHANGED rets
    /\ UNCHANGED <<initialized, world, size_list, tensor_list, input_dict, names, values>>

\* Lines 72-73: all_gather completes once every rank is inside it; every
\* rank receives the sizes in rank order.
AllGatherDone ==
    /\ \A r \in Procs : pc[r] = "all_gather"
    /\ size_list' = [r \in Procs |-> [q \in 1 .. world |-> Len(tensor[q - 1])]]
    /\ pc' = [r \in Procs |-> "padding"]
    /\ UNCHANGED <<initialized, world, tensor, tensor_list, input_dict, names,
                   values, calls, rets, events>>

\* A variant of max_size that takes the rank's own size for the maximum.
max_size_own(r) == Len(tensor[r])

\* A variant of max_size that never shrinks: the largest size the process
\* has seen in this call or reported in any call before.
max_size_kept(r) ==
    LET before == UNION {{events[r][j][i].arg[1] :
                            i \in {n \in 1 .. Len(events[r][j]) :
                                      events[r][j][n].op = "all_gather"}} :
                         j \in 1 .. Len(events[r])}
        seen == before \cup {SeqMax(size_list[r])}
    IN  CHOOSE n \in seen : \A other \in seen : other <= n

max_size(r) == SeqMax(size_list[r])

\* A variant of cat that puts the padding in front of the tensor.
cat_padding_first(t, padding) == padding \o t

\* Line 78: torch.cat((tensor, padding), dim=0)
cat(t, padding) == t \o padding

\* A variant of gather_list that sizes each receive buffer by its sender.
gather_list_by_sender(r) ==
    IF is_main_process(r) THEN size_list[r] ELSE <<>>

\* Lines 82-84: the receive buffers rank 0 hands to gather, by their sizes
\* (their content is uninitialized and overwritten by the gather); every
\* other rank hands over the empty list.
gather_list(r) ==
    IF is_main_process(r)
    THEN [q \in 1 .. Len(size_list[r]) |-> max_size(r)]
    ELSE <<>>

\* A variant of GatherPad in which the gather sits inside the branch that
\* pads: a process whose tensor needs no padding returns without it.
GatherPad_gather_when_padded(r) ==
    /\ pc[r] = "padding"
    /\ IF Len(tensor[r]) # max_size(r)
       THEN /\ \E padding \in [1 .. (max_size(r) - Len(tensor[r])) -> Byte] :
                  /\ tensor' = [tensor EXCEPT ![r] = cat(tensor[r], padding)]
                  /\ Issue(r, <<Ev("gather_list", gather_list(r)),
                                Ev("gather", cat(tensor[r], padding))>>)
            /\ pc' = [pc EXCEPT ![r] = "gather"]
            /\ UNCHANGED <<size_list, rets>>
       ELSE /\ tensor' = [tensor EXCEPT ![r] = <<>>]
            /\ size_list' = [size_list EXCEPT ![r] = <<>>]
            /\ Return(r, RetNone)
            /\ pc' = [pc EXCEPT ![r] = "idle"]
            /\ UNCHANGED events
    /\ UNCHANGED <<initialized, world, tensor_list, input_dict, names, values, calls>>

\* Lines 74-88: pad the local tensor to max_size and enter the gather.  The
\* padding is torch.ByteTensor(size=...), memory that nothing initializes:
\* its bytes are whatever the allocator hands out.
GatherPad(r) ==
    /\ pc[r] = "padding"
    /\ \E padding \in [1 .. (max_size(r) - Len(tensor[r])) -> Byte] :
          LET padded == IF Len(tensor[r]) # max_size(r)
                        THEN cat(tensor[r], padding)
                        ELSE tensor[r]
          IN  /\ tensor' = [tensor EXCEPT ![r] = padded]
              /\ Issue(r, <<Ev("gather_list", gather_list(r)), Ev("gather", padded)>>)
    /\ pc' = [pc EXCEPT ![r] = "gather"]
    /\ UNCHANGED <<initialized, world, size_list, tensor_list, input_dict, names,
                   values, calls, rets>>

\* Lines 81-90: the gather completes once every rank is inside it.  Rank 0's
\* receive buffers, one per entry of size_list, are filled in rank order;
\* every other rank drops its tensor and returns None.
GatherDone ==
    /\ \A r \in Procs : pc[r] = "gather"
    /\ tensor_list' = [tensor_list EXCEPT
                          ![0] = [q \in 1 .. Len(size_list[0]) |-> tensor[q - 1]]]
    /\ pc' = [r \in Procs |-> IF is_main_process(r) THEN "loads" ELSE "idle"]
    /\ rets' = [r \in Procs |->
                   IF is_main_process(r) THEN rets[r] ELSE Append(rets[r], RetNone)]
    /\ tensor' = [r \in Procs |-> <<>>]
    /\ size_list' = [r \in Procs |-> IF is_main_process(r) THEN size_list[r] ELSE <<>>]
    /\ UNCHANGED <<initialized, world, input_dict, names, values, calls, events>>

\* Lines 92-99: rank 0 turns every receive buffer, whole, into bytes and
\* unpickles it.  An exception of pickle.loads leaves the call.
GatherLoads(r) ==
    /\ pc[r] = "loads"
    /\ LET buffers == tensor_list[r]
           loaded == [q \in 1 .. Len(buffers) |-> loads(buffers[q])]
           failing == {q \in 1 .. Len(buffers) : ~loaded[q].ok}
           first == CHOOSE q \in failing : \A p \in failing : q <= p
       IN  IF failing = {}
           THEN /\ Issue(r, [q \in 1 .. Len(buffers) |-> Ev("loads", buffers[q])])
                /\ Return(r, RetList([q \in 1 .. Len(buffers) |-> loaded[q].val]))
                /\ pc' = [pc EXCEPT ![r] = "idle"]
           ELSE /\ Issue(r, [q \in 1 .. first |-> Ev("loads", buffers[q])])
                /\ Return(r, Raise)
                /\ pc' = [pc EXCEPT ![r] = "raised"]
    /\ tensor_list' = [tensor_list EXCEPT ![r] = <<>>]
    /\ size_list' = [size_list EXCEPT ![r] = <<>>]
    /\ UNCHANGED <<initialized, world, tensor, input_dict, names, values, calls>>

\* ------------------------------------------------------------ reduce_dict
\* A mapping is a Python dict: <<key, value>> pairs in insertion order, no
\* key twice.  Keys are ordered as sorted() orders them.
Keys == 1 .. MaxKey
Vals == 1 .. MaxVal

Mappings ==
    {m \in SeqsUpTo(Keys \X Vals, MaxKey) :
        \A i, j \in 1 .. Len(m) : i # j => m[i][1] # m[j][1]}

keys(m) == [i \in 1 .. Len(m) |-> m[i][1]]

KeySet(m) == {m[i][1] : i \in 1 .. Len(m)}

\* m[k], for a key k of m
Item(m, k) == m[CHOOSE i \in 1 .. Len(m) : m[i][1] = k][2]

RECURSIVE insort(_, _)
insort(k, s) ==
    IF s = <<>> THEN <<k>>
    ELSE IF k <= Head(s) THEN <<k>> \o s
    ELSE <<Head(s)>> \o insort(k, Tail(s))

\* A variant of sorted that leaves the keys in insertion order.
sorted_as_inserted(s) == s

RECURSIVE sorted(_)
sorted(s) == IF s = <<>> THEN <<>> ELSE insort(Head(s), sorted(Tail(s)))

\* Tensor elements are fractions <<numerator, denominator>> in lowest terms.
RECURSIVE GCD(_, _)
GCD(a, b) == IF b = 0 THEN a ELSE GCD(b, a % b)

Frac(n, d) == <<n \div GCD(n, d), d \div GCD(n, d)>>

FracAdd(x, y) == Frac(x[1] * y[2] + y[1] * x[2], x[2] * y[2])

\* A variant of FracDiv that does not divide.
FracDiv_none(x, n) == x

FracDiv(x, n) == Frac(x[1], x[2] * n)

\* torch.stack(values, dim=0): a new tensor holding the values in order
stack(m, ks) == [i \in 1 .. Len(ks) |-> Frac(Item(m, ks[i]), 1)]

\* The element-wise sum of the tensors of the ranks in S (S is not empty).
RECURSIVE TensorSum(_, _)
TensorSum(ts, S) ==
    LET q == CHOOSE x \in S : \A y \in S : x <= y
    IN  IF S = {q} THEN ts[q]
        ELSE [i \in 1 .. Len(ts[q]) |-> FracAdd(ts[q][i], TensorSum(ts, S \ {q})[i])]

ReduceInput(m, average) == [op |-> "reduce", data |-> m, average |-> average]

\* Lines 111-122: up to the point where the process waits inside reduce.
\* torch.stack of an empty list raises.
ReduceCall(r, m, average) ==
    /\ Idle(r)
    /\ input_dict' = [input_dict EXCEPT ![r] = m]
    /\ IF get_world_size < 2
       THEN /\ UNCHANGED <<pc, names, values>>
            /\ Begin(r, ReduceInput(m, average))
            /\ Return(r, RetDict(m))
       ELSE IF m = <<>>
       THEN /\ pc' = [pc EXCEPT ![r] = "raised"]
            /\ Begin(r, ReduceInput(m, average))
            /\ Return(r, Raise)
            /\ UNCHANGED <<names, values>>
       ELSE /\ pc' = [pc EXCEPT ![r] = "reduce"]
            /\ names' = [names EXCEPT ![r] = sorted(keys(m))]
            /\ values' = [values EXCEPT ![r] = stack(m, sorted(keys(m)))]
            /\ BeginIssue(r, ReduceInput(m, average),
                          <<Ev("reduce", stack(m, sorted(keys(m))))>>)
            /\ UNCHANGED rets
    /\ UNCHANGED <<initialized, world, tensor, size_list, tensor_list>>

\* A variant of write_through in which values shares its storage with the
\* tensors of the mapping, so that a write to values shows in the mapping.
write_through_shared(m, ns, vals) ==
    [i \in 1 .. Len(m) |->
        LET v == vals[CHOOSE j \in 1 .. Len(ns) : ns[j] = m[i][1]]
        IN  <<m[i][1], IF v[2] = 1 THEN v[1] ELSE v>>]

\* Lines 121-124: what the caller's mapping m holds after an in-place write
\* (by dist.reduce or by /=) has left vals in values, the stack of m's
\* tensors under the keys ns.  torch.stack copies its inputs into a new
\* tensor, so the write does not reach the tensors of m.
write_through(m, ns, vals) == m

\* Line 122: the reduce completes once every rank is inside it with a tensor
\* of the same shape.  Rank 0's tensor becomes the sum over all ranks; the
\* tensor of another rank is left holding some intermediate: the sum over
\* some set of ranks that contains the rank itself.
ReduceDone ==
    /\ \A r \in Procs : pc[r] = "reduce"
    /\ \A r \in Procs : Len(values[r]) = Len(values[0])
    /\ \E part \in [Procs -> SUBSET Procs] :
          /\ part[0] = Procs
          /\ \A r \in Procs : r \in part[r]
          /\ values' = [r \in Procs |-> TensorSum(values, part[r])]
          /\ input_dict' = [r \in Procs |->
                write_through(input_dict[r], names[r], TensorSum(values, part[r]))]
    /\ pc' = [r \in Procs |-> "reduced"]
    /\ UNCHANGED <<initialized, world, tensor, size_list, tensor_list,
                   names, calls, rets, events>>

\* Lines 123-128: rank 0 divides when average is set; the result pairs the
\* sorted keys with the elements of values.
ReduceReturn(r) ==
    /\ pc[r] = "reduced"
    /\ LET average == calls[r][Len(calls[r])].average
           out == IF get_rank(r) = 0 /\ average
                  THEN [i \in 1 .. Len(values[r]) |-> FracDiv(values[r][i], get_world_size)]
                  ELSE values[r]
       IN  /\ Return(r, RetDict([i \in 1 .. Len(names[r]) |-> <<names[r][i], out[i]>>]))
           /\ input_dict' = [input_dict EXCEPT
                 ![r] = write_through(input_dict[r], names[r], out)]
    /\ pc' = [pc EXCEPT ![r] = "idle"]
    /\ names' = [names EXCEPT ![r] = <<>>]
    /\ values' = [values EXCEPT ![r] = <<>>]
    /\ UNCHANGED <<initialized, world, tensor, size_list, tensor_list, calls, events>>

\* ------------------------------------------------------------ synchronize
SyncInput == [op |-> "sync", data |-> <<>>, average |-> FALSE]

\* A variant of sync_returns_early without the test of the world size.
sync_returns_early_uninit == ~initialized

\* Lines 39-45: the three early returns of synchronize
sync_returns_early == ~initialized \/ world = 1

\* Lines 39-46: up to the point where the process waits inside barrier.
SyncCall(r) ==
    /\ Idle(r)
    /\ IF sync_returns_early
       THEN /\ UNCHANGED pc
            /\ Begin(r, SyncInput)
            /\ Return(r, RetNone)
       ELSE /\ pc' = [pc EXCEPT ![r] = "barrier"]
            /\ BeginIssue(r, SyncInput, <<Ev("barrier", <<>>)>>)
            /\ UNCHANGED rets
    /\ UNCHANGED <<initialized, world, tensor, size_list, tensor_list, input_dict,
                   names, values>>

\* Line 46: the barrier completes once every rank is inside it.
BarrierDone ==
    /\ \A r \in Procs : pc[r] = "barrier"
    /\ pc' = [r \in Procs |-> "idle"]
    /\ rets' = [r \in Procs |-> Append(rets[r], RetNone)]
    /\ UNCHANGED <<initialized, world, tensor, size_list, tensor_list, input_dict,
                   names, values, calls, events>>

\* ------------------------------------------------------- specifications
InitLocals ==
    /\ pc = [r \in Procs |-> "idle"]
    /\ tensor = [r \in Procs |-> <<>>]
    /\ size_list = [r \in Procs |-> <<>>]
    /\ tensor_list = [r \in Procs |-> <<>>]
    /\ input_dict = [r \in Procs |-> <<>>]
    /\ names = [r \in Procs |-> <<>>]
    /\ values = [r \in Procs |-> <<>>]
    /\ calls = [r \in Procs |-> <<>>]
    /\ rets = [r \in Procs |-> <<>>]
    /\ events = [r \in Procs |-> <<>>]

\* One gather_on_master call per process, groups of up to MaxWorld.
InitG ==
    /\ initialized \in BOOLEAN
    /\ world \in 1 .. MaxWorld
    /\ ~initialized => world = 1
    /\ InitLocals

NextG ==
    \/ \E r \in Procs : \E data \in Payloads :
          Len(calls[r]) < 1 /\ GatherCall(r, data)
    \/ AllGatherDone
    \/ \E r \in Procs : GatherPad(r)
    \/ GatherDone
    \/ \E r \in Procs : GatherLoads(r)

SpecG == InitG /\ [][NextG]_vars

\* One reduce_dict call per process, groups of up to MaxWorld.
NextR ==
    \/ \E r \in Procs : \E m \in Mappings : \E average \in BOOLEAN :
          Len(calls[r]) < 1 /\ ReduceCall(r, m, average)
    \/ ReduceDone
    \/ \E r \in Procs : ReduceReturn(r)

SpecR == InitG /\ [][NextR]_vars

\* One reduce_dict call per process in a group of MaxWorld - 1, on mappings
\* of MaxKey entries whose keys come from one key more, so that key sets of
\* the same size can differ in membership.
WideKeys == 1 .. (MaxKey + 1)

WideMappings ==
    {m \in [1 .. MaxKey -> WideKeys \X Vals] :
        \A i, j \in 1 .. Len(m) : i # j => m[i][1] # m[j][1]}

InitK ==
    /\ initialized = TRUE
    /\ world = MaxWorld - 1
    /\ InitLocals

NextK ==
    \/ \E r \in Procs : \E m \in WideMappings : \E average \in BOOLEAN :
          Len(calls[r]) < 1 /\ ReduceCall(r, m, average)
    \/ ReduceDone
    \/ \E r \in Procs : ReduceReturn(r)

SpecK == InitK /\ [][NextK]_vars

\* Up to MaxCalls calls per process, of any of the three operations in any
\* order, in groups smaller than MaxWorld, on a few inputs of each kind.
MixPayloads == {data \in Payloads : \A i \in 1 .. Len(data) : data[i] \in {0, Lambda}}

MixMappings == {m \in Mappings : \A i \in 1 .. Len(m) : m[i][2] = m[i][1]}

Init ==
    /\ initialized \in BOOLEAN
    /\ world \in 1 .. (MaxWorld - 1)
    /\ ~initialized => world = 1
    /\ InitLocals

MayCall(r) == Len(calls[r]) < MaxCalls

Next ==
    \/ \E r \in Procs : \E data \in MixPayloads : MayCall(r) /\ GatherCall(r, data)
    \/ AllGatherDone
    \/ \E r \in Procs : GatherPad(r)
    \/ GatherDone
    \/ \E r \in Procs : GatherLoads(r)
    \/ \E r \in Procs : \E m \in MixMappings : \E average \in BOOLEAN :
          MayCall(r) /\ ReduceCall(r, m, average)
    \/ ReduceDone
    \/ \E r \in Procs : ReduceReturn(r)
    \/ \E r \in Procs : MayCall(r) /\ SyncCall(r)
    \/ BarrierDone

Spec == Init /\ [][Next]_vars

\* A group of MaxWorld - 1 processes that all issue the same MaxCalls calls
\* in the same order: a process may issue as its next call only the
\* operation, and for reduce_dict only the key set, that the processes ahead
\* of it issued at that place.  Payloads are those pickle writes and reads
\* back.  Every process keeps running: a step that stays possible is
\* eventually taken.
SamePayloads == {data \in MixPayloads : \A i \in 1 .. Len(data) : data[i] \in Byte}

Follows(r, op, m) ==
    \A q \in Procs :
        Len(calls[q]) > Len(calls[r]) =>
            LET ahead == calls[q][Len(calls[r]) + 1]
            IN  /\ ahead.op = op
                /\ op = "reduce" => KeySet(ahead.data) = KeySet(m)

InitL ==
    /\ initialized = TRUE
    /\ world = MaxWorld - 1
    /\ InitLocals

NextL ==
    \/ \E r \in Procs : \E data \in SamePayloads :
          MayCall(r) /\ Follows(r, "gather", <<>>) /\ GatherCall(r, data)
    \/ AllGatherDone
    \/ \E r \in Procs : GatherPad(r)
    \/ GatherDone
    \/ \E r \in Procs : GatherLoads(r)
    \/ \E r \in Procs : \E m \in MixMappings : \E average \in BOOLEAN :
          MayCall(r) /\ Follows(r, "reduce", m) /\ ReduceCall(r, m, average)
    \/ ReduceDone
    \/ \E r \in Procs : ReduceReturn(r)
    \/ \E r \in Procs : MayCall(r) /\ Follows(r, "sync", <<>>) /\ SyncCall(r)
    \/ BarrierDone

SpecL == InitL /\ [][NextL]_vars /\ WF_vars(NextL)

\* One call per process, of any of the three operations, in groups of up
\* to MaxWorld.
NextOne ==
    \/ \E r \in Procs : \E data \in MixPayloads :
          Len(calls[r]) < 1 /\ GatherCall(r, data)
    \/ AllGatherDone
    \/ \E r \in Procs : GatherPad(r)
    \/ GatherDone
    \/ \E r \in Procs : GatherLoads(r)
    \/ \E r \in Procs : \E m \in MixMappings : \E average \in BOOLEAN :
          Len(calls[r]) < 1 /\ ReduceCall(r, m, average)
    \/ ReduceDone
    \/ \E r \in Procs : ReduceReturn(r)
    \/ \E r \in Procs : Len(calls[r]) < 1 /\ SyncCall(r)
    \/ BarrierDone

SpecOne == InitG /\ [][NextOne]_vars

\* =================================================================== claims
\* What the claims speak about, read off the record of calls.
Grouped == initialized /\ world >= 2

\* No group is active, or the group has one process.
Alone == ~initialized \/ world = 1

\* A payload that pickle writes and reads back: integers only.
Serializable(data) == \A i \in 1 .. Len(data) : data[i] \in Byte

\* Every rank has made a k-th call and it is a call of operation op.
AllCalled(k, op) == \A q \in Procs : Len(calls[q]) >= k /\ calls[q][k].op = op

Returned(r, k) == Len(rets[r]) >= k

\* The events of one operation among those of r's k-th call, in issue order.
EventsOf(r, k, op) == SelectSeq(events[r][k], LAMBDA e : e.op = op)

\* The payloads of the ranks in the k-th call, in rank order.
PayloadsOf(k) == [q \in 1 .. world |-> calls[q - 1][k].data]

\* C1: in a group of N >= 2 processes that all call gather_on_master with
\* payloads pickle can write and read back, the call on rank 0 returns the
\* list of the N payloads in rank order, and the call on every other rank
\* returns None.
C1_GatherOnMaster ==
    Grouped =>
        \A r \in Procs : \A k \in 1 .. Len(rets[r]) :
            (AllCalled(k, "gather")
                /\ \A q \in Procs : Serializable(calls[q][k].data))
            => IF r = 0
               THEN rets[r][k] = RetList(PayloadsOf(k))
               ELSE rets[r][k] = RetNone

C1_Witness ==
    /\ world = MaxWorld
    /\ \A r \in Procs : Returned(r, 1) /\ calls[r][1].op = "gather"
    /\ rets[0][1].kind = "list"
    /\ Len(rets[0][1].val) = MaxWorld
    /\ \A r \in Procs \ {0} : rets[r][1] = RetNone
    /\ \A r, q \in Procs : r # q => calls[r][1].data # calls[q][1].data

\* C2: when the serialized payloads of the ranks do not all have the same
\* length, so that some buffer is padded, every buffer rank 0 unpickles
\* begins with the sender's complete pickle (nothing is cut short), and the
\* value rank 0 obtains from it is the sender's payload, whatever bytes the
\* padding behind it holds.
UnequalSizes(k) ==
    \E p, q \in Procs :
        Len(dumps(calls[p][k].data)) # Len(dumps(calls[q][k].data))

C2_PaddingRoundTrip ==
    Grouped =>
        \A k \in 1 .. Len(rets[0]) :
            (AllCalled(k, "gather")
                /\ (\A q \in Procs : Serializable(calls[q][k].data))
                /\ UnequalSizes(k))
            => /\ rets[0][k].kind = "list"
               /\ Len(EventsOf(0, k, "loads")) = world
               /\ \A q \in Procs :
                     LET data == calls[q][k].data
                         buffer == EventsOf(0, k, "loads")[q + 1].arg
                     IN  /\ Len(buffer) >= Len(dumps(data))
                         /\ SubSeq(buffer, 1, Len(dumps(data))) = dumps(data)
                         /\ rets[0][k].val[q + 1] = data

\* Rank 0 has unpickled buffers of different original lengths, one of them
\* padded with bytes that are opcodes.
C2_Witness ==
    /\ world = MaxWorld
    /\ Returned(0, 1)
    /\ AllCalled(1, "gather")
    /\ UnequalSizes(1)
    /\ rets[0][1].kind = "list"
    /\ \E q \in Procs :
          LET buffer == EventsOf(0, 1, "loads")[q + 1].arg
          IN  /\ Len(buffer) > Len(dumps(calls[q][1].data))
              /\ buffer[Len(buffer)] = BININT1
              /\ buffer[Len(buffer) - 1] = STOP

\* C3: with world size 1 (no active group, or a group of one process)
\* gather_on_master(x) returns [x] and reduce_dict(m) returns m itself, at
\* once, and neither issues a collective operation or pickles anything.
C3_SingleProcess ==
    Alone =>
        \A r \in Procs : \A k \in 1 .. Len(calls[r]) :
            /\ calls[r][k].op = "gather" =>
                  /\ Returned(r, k)
                  /\ rets[r][k] = RetList(<<calls[r][k].data>>)
                  /\ events[r][k] = <<>>
            /\ calls[r][k].op = "reduce" =>
                  /\ Returned(r, k)
                  /\ rets[r][k] = RetDict(calls[r][k].data)
                  /\ events[r][k] = <<>>
            /\ pc[r] = "idle"

\* Without a group, a payload pickle would refuse is returned as it is, and
\* a mapping comes back in its insertion order.
C3_Witness ==
    /\ ~initialized
    /\ Len(rets[0]) = MaxCalls
    /\ calls[0][1].op = "gather"
    /\ calls[0][1].data = <<Lambda>>
    /\ rets[0][1] = RetList(<<(<<Lambda>>)>>)
    /\ calls[0][MaxCalls].op = "reduce"
    /\ Len(calls[0][MaxCalls].data) = MaxKey
    /\ calls[0][MaxCalls].data[1][1] = MaxKey
    /\ rets[0][MaxCalls].val = calls[0][MaxCalls].data

\* Every rank supplies the same key set in the k-th call.
SameKeys(k) ==
    \A q \in Procs : KeySet(calls[q][k].data) = KeySet(calls[0][k].data)

\* The sum over the ranks in S of the value each supplies for key.
RECURSIVE KeySum(_, _, _)
KeySum(k, key, S) ==
    IF S = {} THEN 0
    ELSE LET q == CHOOSE x \in S : TRUE
         IN  Item(calls[q][k].data, key) + KeySum(k, key, S \ {q})

\* C4: in a group of N >= 2 processes that all call reduce_dict with the
\* same key set, the mapping returned on rank 0 has exactly those keys and
\* maps each key to the sum over all ranks of the rank's value for the key,
\* divided by N when rank 0's average is true and undivided when it is false.
C4_ReduceDict ==
    Grouped =>
        \A k \in 1 .. Len(rets[0]) :
            (AllCalled(k, "reduce") /\ SameKeys(k)) =>
                \A key \in KeySet(calls[0][k].data) :
                    /\ rets[0][k].kind = "dict"
                    /\ KeySet(rets[0][k].val) = KeySet(calls[0][k].data)
                    /\ Len(rets[0][k].val) = Len(calls[0][k].data)
                    /\ LET v == Item(rets[0][k].val, key)
                           sum == KeySum(k, key, Procs)
                       IN  IF calls[0][k].average
                           THEN v[2] > 0 /\ v[1] * world = sum * v[2]
                           ELSE v = <<sum, 1>>

\* Rank 0 of the largest group has an average that is no whole number.
C4_Witness ==
    /\ initialized
    /\ world = MaxWorld
    /\ Returned(0, 1)
    /\ AllCalled(1, "reduce")
    /\ SameKeys(1)
    /\ calls[0][1].average
    /\ Len(calls[0][1].data) = MaxKey
    /\ rets[0][1].kind = "dict"
    /\ \E key \in Keys : Item(rets[0][1].val, key)[2] = world

\* The place of key among the keys of m in ascending order.
KeyPos(m, key) == Cardinality({other \in KeySet(m) : other <= key})

DifferentOrders(k) ==
    \E p, q \in Procs : keys(calls[p][k].data) # keys(calls[q][k].data)

\* C5: when the ranks supply the same key set in different insertion
\* orders, every rank hands reduce a tensor whose i-th element is its value
\* for the i-th key in ascending order, so that equal positions hold the
\* same key on every rank, and rank 0's result for a key combines the
\* values of that key alone.
C5_KeyOrderIndependent ==
    Grouped =>
        \A k \in 1 .. Len(rets[0]) :
            (AllCalled(k, "reduce") /\ SameKeys(k) /\ DifferentOrders(k)) =>
                /\ \A q \in Procs : \A key \in KeySet(calls[q][k].data) :
                      LET m == calls[q][k].data
                          sent == EventsOf(q, k, "reduce")[1].arg
                      IN  /\ Len(sent) = Len(m)
                          /\ sent[KeyPos(m, key)] = <<Item(m, key), 1>>
                /\ \A key \in KeySet(calls[0][k].data) :
                      Item(rets[0][k].val, key) =
                          IF calls[0][k].average
                          THEN Frac(KeySum(k, key, Procs), world)
                          ELSE <<KeySum(k, key, Procs), 1>>

\* Rank 0 and rank 1 insert the same keys in opposite orders, with values
\* that tell the keys apart.
C5_Witness ==
    /\ initialized
    /\ world >= 2
    /\ Returned(0, 1)
    /\ AllCalled(1, "reduce")
    /\ SameKeys(1)
    /\ Len(calls[0][1].data) = MaxKey
    /\ keys(calls[0][1].data) = sorted(keys(calls[0][1].data))
    /\ keys(calls[1][1].data) # keys(calls[0][1].data)
    /\ \E i, j \in 1 .. MaxKey : calls[1][1].data[i][2] # calls[1][1].data[j][2]
    /\ rets[0][1].kind = "dict"

\* Process r waits inside a collective operation.
Blocked(r) == pc[r] \in {"all_gather", "gather", "reduce", "barrier"}

LastOp(r) == calls[r][Len(calls[r])].op

\* Where a process is once the collective it waited in has completed.
AfterCollective(r) ==
    CASE pc[r] = "all_gather" -> {"padding"}
      [] pc[r] = "gather" -> {"loads", "idle"}
      [] pc[r] = "reduce" -> {"reduced"}
      [] pc[r] = "barrier" -> {"idle"}
      [] OTHER -> {}

\* A call of r that has come back with a value, not with an exception, was
\* issued by every process of the group: same place in the order of calls,
\* same operation.
ReturnedOnlyAfterAll ==
    Grouped =>
        \A r \in Procs : \A k \in 1 .. Len(rets[r]) :
            rets[r][k] # Raise => AllCalled(k, calls[r][k].op)

\* A process leaves a collective only in a step that finds every process of
\* the group waiting in that collective, in the same call of the same
\* operation, and it leaves it for the next statement, never with an error.
LeavesOnlyWithAll ==
    \A r \in Procs :
        (Blocked(r) /\ pc'[r] # pc[r]) =>
            /\ \A q \in Procs :
                  /\ pc[q] = pc[r]
                  /\ Len(calls[q]) = Len(calls[r])
                  /\ LastOp(q) = LastOp(r)
            /\ pc'[r] \in AfterCollective(r)

Refused(data) == \E i \in 1 .. Len(data) : data[i] = Lambda

\* C7: a process whose payload pickle.dumps refuses fails its
\* gather_on_master call with the error before it issues all_gather or
\* gather, and every other process that has entered the call with a
\* picklable payload waits in all_gather and has not returned; a buffer that
\* pickle.loads cannot read fails the call on rank 0 with the error.
C7_SerializationFailure ==
    Grouped =>
        \A r \in Procs : \A k \in 1 .. Len(calls[r]) :
            calls[r][k].op = "gather" =>
                /\ Refused(calls[r][k].data) =>
                      /\ Returned(r, k)
                      /\ rets[r][k] = Raise
                      /\ pc[r] = "raised"
                      /\ events[r][k] = <<Ev("dumps", <<>>)>>
                      /\ \A q \in Procs \ {r} :
                            (Len(calls[q]) >= k /\ ~Refused(calls[q][k].data)) =>
                                /\ pc[q] = "all_gather"
                                /\ ~Returned(q, k)
                /\ (/\ r = 0
                    /\ Returned(0, k)
                    /\ \E q \in Procs :
                          /\ Len(calls[q]) >= k
                          /\ ~Serializable(calls[q][k].data)) =>
                      /\ rets[0][k] = Raise
                      /\ pc[0] = "raised"

\* One process of three has failed in pickle.dumps; the two others wait.
C7_Witness ==
    /\ initialized
    /\ world = MaxWorld
    /\ \E r \in Procs :
          /\ Len(calls[r]) = 1
          /\ Refused(calls[r][1].data)
          /\ rets[r] = <<Raise>>
          /\ \A q \in Procs \ {r} :
                /\ Len(calls[q]) = 1
                /\ Serializable(calls[q][1].data)
                /\ pc[q] = "all_gather"

\* Process r begins a call of synchronize in this step.
SyncStep(r) ==
    /\ Len(calls'[r]) = Len(calls[r]) + 1
    /\ calls'[r][Len(calls'[r])].op = "sync"

\* C8: synchronize issues a barrier, and waits in it, exactly when a group
\* is active and has at least 2 processes; otherwise it returns at once,
\* issues nothing and leaves the state of the process and the group as it
\* was.
C8_Synchronize ==
    [][\A r \in Procs :
          SyncStep(r) =>
              IF initialized /\ world >= 2
              THEN /\ events'[r][Len(events'[r])] = <<Ev("barrier", <<>>)>>
                   /\ pc'[r] = "barrier"
                   /\ rets'[r] = rets[r]
              ELSE /\ events'[r][Len(events'[r])] = <<>>
                   /\ rets'[r] = Append(rets[r], RetNone)
                   /\ UNCHANGED <<initialized, world, pc, tensor, size_list,
                                  tensor_list, input_dict, names, values>>]_vars

\* A group of one process is active; synchronize has returned without a
\* barrier, after an earlier call.
C8_Witness ==
    /\ initialized
    /\ world = 1
    /\ Len(rets[0]) = MaxCalls
    /\ calls[0][MaxCalls].op = "sync"
    /\ events[0][MaxCalls] = <<>>
    /\ rets[0][MaxCalls] = RetNone

\* Every rank supplies the same input to its calls number k1 and k2.
SameInputs(k1, k2) ==
    \A q \in Procs :
        /\ Len(calls[q]) >= k2
        /\ calls[q][k1].op = calls[q][k2].op
        /\ calls[q][k1].data = calls[q][k2].data
        /\ calls[q][k1].average = calls[q][k2].average

\* C9: two rounds of the same operation in which every rank supplies the
\* same input give the same result on rank 0, whatever the order in which
\* the processes went through each round and whatever the padding held.
C9_Deterministic ==
    \A k1, k2 \in 1 .. Len(rets[0]) :
        (k1 < k2 /\ SameInputs(k1, k2)) =>
            /\ rets[0][k1].kind = rets[0][k2].kind
            /\ rets[0][k1].val = rets[0][k2].val

\* Two rounds of gather_on_master with the same payloads, in which rank 0
\* unpickled differently padded buffers.
C9_Witness ==
    /\ initialized
    /\ world >= 2
    /\ Len(rets[0]) = 2
    /\ SameInputs(1, 2)
    /\ calls[0][1].op = "gather"
    /\ rets[0][1].kind = "list"
    /\ EventsOf(0, 1, "loads") # EventsOf(0, 2, "loads")

\* The size rank q reported in the all_gather of its k-th call.
ReportedSize(q, k) == EventsOf(q, k, "all_gather")[1].arg[1]

\* C10 as stated: every buffer rank 0 unpickles has the length its sender
\* reported, being cut back to it.
C10_TruncatesToReported ==
    Grouped =>
        \A k \in 1 .. Len(events[0]) :
            \A i \in 1 .. Len(EventsOf(0, k, "loads")) :
                Len(EventsOf(0, k, "loads")[i].arg) = ReportedSize(i - 1, k)

\* C10, amended: rank 0 unpickles every received buffer whole, at the
\* largest reported length; the buffer begins with the sender's pickle, of
\* the length the sender reported, and the value obtained is the sender's
\* payload.
C10_LoadsWholeBuffer ==
    Grouped =>
        \A k \in 1 .. Len(events[0]) :
            \A i \in 1 .. Len(EventsOf(0, k, "loads")) :
                LET buffer == EventsOf(0, k, "loads")[i].arg
                    data == calls[i - 1][k].data
                IN  /\ \A q \in Procs : Len(buffer) >= ReportedSize(q, k)
                    /\ \E q \in Procs : Len(buffer) = ReportedSize(q, k)
                    /\ ReportedSize(i - 1, k) = Len(dumps(data))
                    /\ SubSeq(buffer, 1, ReportedSize(i - 1, k)) = dumps(data)
                    /\ (Returned(0, k) /\ rets[0][k].kind = "list") =>
                          rets[0][k].val[i] = data

\* Rank 0 has unpickled a buffer longer than its sender reported, and
\* returned the payloads.
C10_Witness ==
    /\ initialized
    /\ world = MaxWorld
    /\ Returned(0, 1)
    /\ rets[0][1].kind = "list"
    /\ \E i \in 1 .. world :
          /\ Len(EventsOf(0, 1, "loads")[i].arg) > ReportedSize(i - 1, 1)
          /\ EventsOf(0, 1, "loads")[i].arg[ReportedSize(i - 1, 1) + 1] # 0

\* The buffer r handed to gather in its k-th call.
SentBuffer(r, k) == EventsOf(r, k, "gather")[1].arg

HasSent(r, k) == Len(events[r]) >= k /\ EventsOf(r, k, "gather") # <<>>

\* The largest size any rank reported in the k-th call.
MaxReported(k) ==
    CHOOSE n \in {ReportedSize(q, k) : q \in Procs} :
        \A q \in Procs : ReportedSize(q, k) <= n

\* C11 as stated: every byte a process appends behind its pickle to reach
\* the maximum reported length is a zero byte.
C11_PaddingIsZero ==
    Grouped =>
        \A r \in Procs : \A k \in 1 .. Len(events[r]) :
            HasSent(r, k) =>
                \A i \in 1 .. Len(SentBuffer(r, k)) :
                    i > ReportedSize(r, k) => SentBuffer(r, k)[i] = 0

\* C11, amended: a process appends exactly as many bytes as its pickle is
\* shorter than the maximum reported length, behind the pickle, which stays
\* as it was; the appended bytes are bytes of uninitialized memory, of any
\* value, and a process whose pickle has the maximum length appends none.
C11_PaddingAppended ==
    Grouped =>
        \A r \in Procs : \A k \in 1 .. Len(events[r]) :
            HasSent(r, k) =>
                LET sent == SentBuffer(r, k)
                    own == ReportedSize(r, k)
                IN  /\ Len(sent) - own = MaxReported(k) - own
                    /\ SubSeq(sent, 1, own) = dumps(calls[r][k].data)
                    /\ \A i \in 1 .. Len(sent) : sent[i] \in Byte

\* A process has appended two bytes, neither of them zero.
C11_Witness ==
    /\ initialized
    /\ world = MaxWorld
    /\ \E r \in Procs :
          /\ HasSent(r, 1)
          /\ Len(SentBuffer(r, 1)) = ReportedSize(r, 1) + 2
          /\ SentBuffer(r, 1)[ReportedSize(r, 1) + 1] = STOP
          /\ SentBuffer(r, 1)[ReportedSize(r, 1) + 2] = BININT1

\* C12: when a process enters the gather, its send buffer is as long as the
\* largest size reported in the all_gather and begins with its unmodified
\* pickle, of the length it reported; rank 0 hands over exactly world-size
\* receive buffers, each of that largest size.
C12_GatherBuffers ==
    Grouped =>
        \A r \in Procs : \A k \in 1 .. Len(events[r]) :
            HasSent(r, k) =>
                /\ \A q \in Procs : ReportedSize(q, k) = Len(dumps(calls[q][k].data))
                /\ Len(SentBuffer(r, k)) = MaxReported(k)
                /\ SubSeq(SentBuffer(r, k), 1, ReportedSize(r, k))
                      = dumps(calls[r][k].data)
                /\ r = 0 =>
                      EventsOf(r, k, "gather_list")[1].arg
                          = [q \in 1 .. world |-> MaxReported(k)]

\* Every rank of the largest group is inside the gather; the pickles have
\* different lengths and rank 0's is not the longest.
C12_Witness ==
    /\ initialized
    /\ world = MaxWorld
    /\ \A r \in Procs : pc[r] = "gather" /\ HasSent(r, 1)
    /\ ReportedSize(0, 1) < MaxReported(1)
    /\ \E r \in Procs : ReportedSize(r, 1) = MaxReported(1)

\* The tensor r handed to reduce in its k-th call.
SentValues(r, k) == EventsOf(r, k, "reduce")[1].arg

\* The sum over the ranks in S of the i-th element each handed to reduce.
RECURSIVE PosSum(_, _, _)
PosSum(k, i, S) ==
    IF S = {} THEN 0
    ELSE LET q == CHOOSE x \in S : TRUE
         IN  SentValues(q, k)[i][1] + PosSum(k, i, S \ {q})

\* C13: in reduce_dict with world size >= 2 no rank other than 0 divides:
\* whatever its average, it returns, under its own sorted keys, the sum over
\* some set of ranks (itself among them) of what the ranks handed to reduce,
\* which need not be the sum over all ranks; rank 0 returns the sum over all
\* ranks, divided by the world size exactly when its average is true.
C13_DivisionOnRankZero ==
    Grouped =>
        \A r \in Procs : \A k \in 1 .. Len(rets[r]) :
            (calls[r][k].op = "reduce" /\ rets[r][k].kind = "dict") =>
                LET out == rets[r][k].val
                    n == Len(out)
                IN  IF r = 0
                    THEN \A i \in 1 .. n :
                            out[i][2] = IF calls[r][k].average
                                        THEN Frac(PosSum(k, i, Procs), world)
                                        ELSE <<PosSum(k, i, Procs), 1>>
                    ELSE \E S \in SUBSET Procs :
                            /\ r \in S
                            /\ \A i \in 1 .. n : out[i][2] = <<PosSum(k, i, S), 1>>

\* Rank 1 asked for the average and got back its own values, while rank 0
\* holds the average over the largest group.
C13_Witness ==
    /\ initialized
    /\ world = MaxWorld
    /\ \A r \in Procs : Returned(r, 1) /\ rets[r][1].kind = "dict"
    /\ calls[0][1].average
    /\ calls[1][1].average
    /\ \A i \in 1 .. Len(rets[1][1].val) :
          rets[1][1].val[i][2] = SentValues(1, 1)[i]
    /\ \E i \in 1 .. Len(rets[0][1].val) : rets[0][1].val[i][2][2] = world

\* The key of m at place i in ascending order.
KeyAt(m, i) == CHOOSE key \in KeySet(m) : KeyPos(m, key) = i

\* Every rank supplies as many keys as rank 0, and some rank other keys.
MismatchedKeys(k) ==
    /\ \A q \in Procs : Len(calls[q][k].data) = Len(calls[0][k].data)
    /\ ~SameKeys(k)

\* The sum over the ranks in S of the value each supplies for the key at
\* place i of its own keys in ascending order.
RECURSIVE PlaceSum(_, _, _)
PlaceSum(k, i, S) ==
    IF S = {} THEN 0
    ELSE LET q == CHOOSE x \in S : TRUE
             m == calls[q][k].data
         IN  Item(m, KeyAt(m, i)) + PlaceSum(k, i, S \ {q})

\* C14: when the ranks call reduce_dict with key sets of one size but of
\* different membership, no rank's call ends in an error: each returns a
\* mapping; rank 0's mapping has rank 0's own keys, and its value for the
\* key at place i of rank 0's ascending keys is the sum (divided by the
\* world size when rank 0 averages) of the values each rank supplies for the
\* key at place i of its own ascending keys.
C14_MismatchUndetected ==
    Grouped =>
        \A k \in 1 .. MaxCalls :
            (AllCalled(k, "reduce") /\ MismatchedKeys(k)) =>
                /\ \A r \in Procs : pc[r] # "raised"
                /\ \A r \in Procs : Returned(r, k) => rets[r][k].kind = "dict"
                /\ Returned(0, k) =>
                      LET m == calls[0][k].data
                          out == rets[0][k].val
                      IN  /\ Len(out) = Len(m)
                          /\ \A i \in 1 .. Len(out) :
                                /\ out[i][1] = KeyAt(m, i)
                                /\ out[i][2] =
                                      IF calls[0][k].average
                                      THEN Frac(PlaceSum(k, i, Procs), world)
                                      ELSE <<PlaceSum(k, i, Procs), 1>>

\* Every rank has returned from a call in which no key is shared by all
\* ranks' first places, and rank 0 inserted its keys in descending order.
C14_Witness ==
    /\ Grouped
    /\ AllCalled(1, "reduce")
    /\ MismatchedKeys(1)
    /\ \A r \in Procs : Returned(r, 1) /\ rets[r][1].kind = "dict"
    /\ calls[0][1].data[1][1] > calls[0][1].data[2][1]
    /\ \E q \in Procs :
          /\ KeyAt(calls[q][1].data, 1) # KeyAt(calls[0][1].data, 1)
          /\ KeyAt(calls[q][1].data, 2) # KeyAt(calls[0][1].data, 2)

\* The mapping r passed to its latest call.
LatestInput(r) == calls[r][Len(calls[r])].data

LongestPickle(k) ==
    CHOOSE n \in {Len(dumps(calls[q][k].data)) : q \in Procs} :
        \A q \in Procs : Len(dumps(calls[q][k].data)) <= n

\* No working buffer of r holds anything.
NoBuffers(r) ==
    /\ tensor[r] = <<>>
    /\ size_list[r] = <<>>
    /\ tensor_list[r] = <<>>
    /\ names[r] = <<>>
    /\ values[r] = <<>>

\* What the k-th call, a gather_on_master, sends and returns is fixed by the
\* payloads of the k-th call.
GatherFromOwnInputs(k) ==
    /\ \A r \in Procs :
          HasSent(r, k) =>
              /\ Len(SentBuffer(r, k)) = LongestPickle(k)
              /\ SubSeq(SentBuffer(r, k), 1, Len(dumps(calls[r][k].data)))
                    = dumps(calls[r][k].data)
              /\ r = 0 => EventsOf(r, k, "gather_list")[1].arg
                             = [q \in 1 .. world |-> LongestPickle(k)]
    /\ \A r \in Procs :
          Returned(r, k) =>
              IF r # 0 THEN rets[r][k] \in {RetNone, Raise}
              ELSE IF \A q \in Procs : Serializable(calls[q][k].data)
              THEN rets[r][k] = RetList(PayloadsOf(k))
              ELSE rets[r][k] = Raise

\* What the k-th call, a reduce_dict, sends and returns is fixed by the
\* mappings of the k-th call.
ReduceFromOwnInputs(k) ==
    \A r \in Procs :
        /\ EventsOf(r, k, "reduce") # <<>> =>
              SentValues(r, k) = [i \in 1 .. Len(calls[r][k].data) |->
                  <<Item(calls[r][k].data, KeyAt(calls[r][k].data, i)), 1>>]
        /\ (Returned(r, k) /\ rets[r][k].kind = "dict") =>
              LET out == rets[r][k].val
              IN  /\ Len(out) = Len(calls[r][k].data)
                  /\ \E S \in SUBSET Procs :
                        /\ r \in S
                        /\ r = 0 => S = Procs
                        /\ \A i \in 1 .. Len(out) :
                              /\ out[i][1] = KeyAt(calls[r][k].data, i)
                              /\ out[i][2] =
                                    IF r = 0 /\ calls[r][k].average
                                    THEN Frac(PlaceSum(k, i, S), world)
                                    ELSE <<PlaceSum(k, i, S), 1>>

\* C15: when the ranks of a group issue their calls in the same order, the
\* buffers and the result of the k-th call are those the inputs of the k-th
\* call alone determine, whatever the other calls were given, and a process
\* that is not inside a call holds no working buffer.
C15_NoCarryOver ==
    /\ \A r \in Procs : pc[r] \in {"idle", "raised"} => NoBuffers(r)
    /\ Grouped =>
          \A k \in 1 .. MaxCalls :
              /\ AllCalled(k, "gather") => GatherFromOwnInputs(k)
              /\ AllCalled(k, "reduce") => ReduceFromOwnInputs(k)

\* Rank 0 has returned from a second gather_on_master whose pickles are all
\* shorter than the longest of the first, with other payloads than the first.
C15_Witness ==
    /\ Grouped
    /\ Returned(0, 2)
    /\ AllCalled(1, "gather")
    /\ AllCalled(2, "gather")
    /\ LongestPickle(2) < LongestPickle(1)
    /\ rets[0][1].kind = "list"
    /\ rets[0][2] = RetList(PayloadsOf(2))
    /\ PayloadsOf(1) # PayloadsOf(2)

\* The collective operations r issued inside its k-th call, in order.
Collectives(r, k) ==
    LET issued == SelectSeq(events[r][k],
                            LAMBDA e : e.op \in {"all_gather", "gather", "reduce", "barrier"})
    IN  [i \in 1 .. Len(issued) |-> issued[i].op]

\* C17 as stated: in a group, every gather_on_master call that has ended
\* issued one all_gather and then one gather, and every reduce_dict call
\* issued one reduce, on every rank and for every input.
C17_SameSequenceEveryInput ==
    Grouped =>
        \A r \in Procs : \A k \in 1 .. Len(rets[r]) :
            /\ calls[r][k].op = "gather" =>
                  Collectives(r, k) = <<"all_gather", "gather">>
            /\ calls[r][k].op = "reduce" =>
                  Collectives(r, k) = <<"reduce">>

\* C17, amended: in a group, a gather_on_master call whose payload pickle
\* writes issues one all_gather and then one gather, on every rank, padded
\* or not, and has issued both when it ends; a reduce_dict call on a
\* mapping that is not empty issues one reduce, whatever its average.  A
\* call whose payload pickle refuses, or whose mapping is empty, raises
\* before it issues any collective operation.
C17_CollectiveSequence ==
    Grouped =>
        \A r \in Procs : \A k \in 1 .. Len(calls[r]) :
            /\ calls[r][k].op = "gather" =>
                  IF Refused(calls[r][k].data)
                  THEN Collectives(r, k) = <<>> /\ rets[r][k] = Raise
                  ELSE IF ~Returned(r, k) /\ pc[r] \in {"all_gather", "padding"}
                  THEN Collectives(r, k) = <<"all_gather">>
                  ELSE Collectives(r, k) = <<"all_gather", "gather">>
            /\ calls[r][k].op = "reduce" =>
                  IF calls[r][k].data = <<>>
                  THEN Collectives(r, k) = <<>> /\ rets[r][k] = Raise
                  ELSE Collectives(r, k) = <<"reduce">>

\* Rank 1, whose pickle was the longest, has returned from gather_on_master
\* and then from a reduce_dict without average; rank 0 padded and averaged.
C17_Witness ==
    /\ Grouped
    /\ \A r \in Procs : Returned(r, 2)
    /\ AllCalled(1, "gather")
    /\ AllCalled(2, "reduce")
    /\ ReportedSize(0, 1) < ReportedSize(1, 1)
    /\ rets[1][1] = RetNone
    /\ ~calls[1][2].average
    /\ calls[0][2].average
    /\ rets[1][2].kind = "dict"

\* Every process has returned from all its MaxCalls calls, none with an error.
AllReturned ==
    \A r \in Procs :
        /\ Len(rets[r]) = MaxCalls
        /\ \A k \in 1 .. MaxCalls : rets[r][k].kind # "error"

\* No reduce_dict call was given the empty mapping.
NoEmptyMapping ==
    \A r \in Procs : \A k \in 1 .. Len(calls[r]) :
        calls[r][k].op = "reduce" => calls[r][k].data # <<>>

\* C16 as stated: when every process of a group issues the same sequence of
\* calls with serializable payloads and identical key sets, then under fair
\* scheduling every call eventually returns on every process.
C16_EveryCallReturns == <>AllReturned

\* C16, amended: when every process of a group issues the same sequence of
\* calls with serializable payloads and identical key sets that are not
\* empty, then under fair scheduling every call eventually returns on every
\* process.
C16_ReturnsOnNonEmpty == ([]NoEmptyMapping) => <>AllReturned

\* Every process has returned from a gather_on_master with pickles of
\* different lengths and then from a reduce_dict on MaxKey keys.
C16_Witness ==
    /\ Grouped
    /\ AllReturned
    /\ AllCalled(1, "gather")
    /\ ReportedSize(0, 1) # ReportedSize(1, 1)
    /\ AllCalled(2, "reduce")
    /\ \A r \in Procs : Len(calls[r][2].data) = MaxKey

====
